---- MODULE Spec2Model ----
(***************************************************************************)
(* Model of generate-qrcodes-ts.py: the SVG normalizer process_svg_file    *)
(* (nested <svg x y width height viewBox> rewritten to <g transform>) and  *)
(* the export emitter main (header, then one export fragment per .svg      *)
(* directory entry).                                                       *)
(*                                                                         *)
(* Text is modelled as a sequence of tokens.  Attribute values and raw     *)
(* file text are sequences of one-character strings, so that the string    *)
(* operations of the source (replace, re.match, float, the format specs)   *)
(* are computed character by character; the fixed pieces of the f-string   *)
(* templates are multi-character tokens.                                   *)
(***************************************************************************)
EXTENDS Integers, Sequences, FiniteSets, TLC

(***************************************************************************)
(* Bounds of the model.                                                    *)
(***************************************************************************)
\* largest number of entries os.listdir returns
MaxFiles == 2
\* largest number of elements below the root of a document
MaxNodes == 2

(***************************************************************************)
(* Character helpers.                                                      *)
(***************************************************************************)
Digits == <<"0", "1", "2", "3", "4", "5", "6", "7", "8", "9">>

IsDigit(c) == \E k \in 1..10 : Digits[k] = c

DigitVal(c) == (CHOOSE k \in 1..10 : Digits[k] = c) - 1

\* value of a sequence of decimal digits
RECURSIVE ToNat(_)
ToNat(s) ==
  IF s = <<>> THEN 0
  ELSE ToNat(SubSeq(s, 1, Len(s) - 1)) * 10 + DigitVal(s[Len(s)])

\* decimal digits of a natural number
RECURSIVE NatToStr(_)
NatToStr(n) ==
  IF n < 10 THEN <<Digits[n + 1]>>
  ELSE NatToStr(n \div 10) \o <<Digits[(n % 10) + 1]>>

\* length of the longest run of digits of s that starts at position i
RECURSIVE DigitRun(_, _)
DigitRun(s, i) ==
  IF i <= Len(s) /\ IsDigit(s[i]) THEN 1 + DigitRun(s, i + 1) ELSE 0

\* str.replace('px', ''): every non-overlapping occurrence, left to right
RECURSIVE StripPx(_)
StripPx(s) ==
  IF s = <<>> THEN <<>>
  ELSE IF Len(s) >= 2 /\ s[1] = "p" /\ s[2] = "x"
       THEN StripPx(SubSeq(s, 3, Len(s)))
       ELSE <<s[1]>> \o StripPx(Tail(s))

\* str.strip() as float() applies it before converting
RECURSIVE LStrip(_)
LStrip(s) == IF s # <<>> /\ s[1] = " " THEN LStrip(Tail(s)) ELSE s

RECURSIVE RStrip(_)
RStrip(s) ==
  IF s # <<>> /\ s[Len(s)] = " " THEN RStrip(SubSeq(s, 1, Len(s) - 1)) ELSE s

RECURSIVE Pow10(_)
Pow10(k) == IF k = 0 THEN 1 ELSE 10 * Pow10(k - 1)

(***************************************************************************)
(* float(s).  The value is kept exactly, as sign, numerator and a power of *)
(* ten; ok = FALSE is the ValueError.  The grammar covered is              *)
(* [spaces][+|-]digits[.digits][spaces]; exponents, inf, nan and           *)
(* underscores are not drawn as inputs.                                    *)
(***************************************************************************)
float(s0) ==
  LET s    == RStrip(LStrip(s0))
      sgn  == s # <<>> /\ s[1] \in {"-", "+"}
      b    == IF sgn THEN Tail(s) ELSE s
      a    == DigitRun(b, 1)
      dot  == a < Len(b) /\ b[a + 1] = "."
      f    == IF dot THEN DigitRun(b, a + 2) ELSE 0
      used == a + (IF dot THEN 1 + f ELSE 0)
      ok   == used = Len(b) /\ a + f >= 1
  IN IF ok
     THEN [ok |-> TRUE,
           neg |-> sgn /\ s[1] = "-",
           n |-> ToNat(SubSeq(b, 1, a)) * Pow10(f)
                 + (IF f > 0 THEN ToNat(SubSeq(b, a + 2, a + 1 + f)) ELSE 0),
           d |-> Pow10(f)]
     ELSE [ok |-> FALSE, neg |-> FALSE, n |-> 0, d |-> 1]

\* the fractional digits of r/d, d a power of ten, trailing zeros dropped
RECURSIVE FracDigits(_, _)
FracDigits(r, d) ==
  IF d = 1 \/ r = 0 THEN <<>>
  ELSE <<Digits[(r \div (d \div 10)) + 1]>> \o FracDigits(r % (d \div 10), d \div 10)

\* f'{x}' of a float: repr, which always shows a fractional part
FloatStr(v) ==
  LET fr == FracDigits(v.n % v.d, v.d)
  IN (IF v.neg THEN <<"-">> ELSE <<>>)
     \o NatToStr(v.n \div v.d) \o <<".">>
     \o (IF fr = <<>> THEN <<"0">> ELSE fr)

\* Fmt3 with the digits after the third cut off instead of rounded
Fmt3Trunc(neg, num, den) ==
  LET q  == (num * 1000) \div den
      th == q % 1000
  IN (IF neg THEN <<"-">> ELSE <<>>)
     \o NatToStr(q \div 1000) \o <<".">>
     \o <<Digits[(th \div 100) + 1], Digits[((th \div 10) % 10) + 1], Digits[(th % 10) + 1]>>

\* f'{q:.3f}' of the quotient num/den (den > 0): rounded to thousandths,
\* an exact tie going to the even neighbour
Fmt3(neg, num, den) ==
  LET t  == num * 1000
      fl == t \div den
      rm == t % den
      q  == IF 2 * rm < den THEN fl
            ELSE IF 2 * rm > den THEN fl + 1
            ELSE IF fl % 2 = 0 THEN fl ELSE fl + 1
      th == q % 1000
  IN (IF neg THEN <<"-">> ELSE <<>>)
     \o NatToStr(q \div 1000) \o <<".">>
     \o <<Digits[(th \div 100) + 1], Digits[((th \div 10) % 10) + 1], Digits[(th % 10) + 1]>>

(***************************************************************************)
(* re.match(r'0 0 (\d+) (\d+)', viewBox): anchored at the start only.      *)
(* \d+ is greedy and what follows it is not a digit, so each group is the  *)
(* longest run of digits at its position.                                  *)
(***************************************************************************)
re_match(vb) ==
  LET a  == DigitRun(vb, 5)
      b  == DigitRun(vb, 5 + a + 1)
      ok == /\ Len(vb) >= 7
            /\ SubSeq(vb, 1, 4) = <<"0", " ", "0", " ">>
            /\ a >= 1
            /\ 5 + a <= Len(vb) /\ vb[5 + a] = " "
            /\ b >= 1
  IN IF ok
     THEN [matched |-> TRUE,
           g1 |-> SubSeq(vb, 5, 4 + a),
           g2 |-> SubSeq(vb, 6 + a, 5 + a + b),
           end |-> 5 + a + b]
     ELSE [matched |-> FALSE, g1 |-> <<>>, g2 |-> <<>>, end |-> 0]

(***************************************************************************)
(* Documents.  An element tree is the sequence of its elements in document *)
(* order; element 1 is the root and every other element names its parent.  *)
(* attrib maps attribute names to values.                                  *)
(***************************************************************************)
SVG_NS_svg == "{http://www.w3.org/2000/svg}svg"
SVG_NS_g == "{http://www.w3.org/2000/svg}g"
SVG_NS_rect == "{http://www.w3.org/2000/svg}rect"

\* Element.get(key, default)
get(attrib, key, default) == IF key \in DOMAIN attrib THEN attrib[key] ELSE default

\* the for loop of attrib.pop(attr, None)
pop(attrib, keys) == [k \in (DOMAIN attrib) \ keys |-> attrib[k]]

\* attrib[key] = value
set(attrib, key, value) ==
  [k \in (DOMAIN attrib) \cup {key} |-> IF k = key THEN value ELSE attrib[k]]

RemovedAttrs == {"x", "y", "width", "height", "viewBox", "fill", "overflow"}

\* findall as root.iter(tag) would list: the root itself included
findallWithRoot(nodes) ==
  SelectSeq([i \in 1..Len(nodes) |-> i], LAMBDA i : nodes[i].tag = SVG_NS_svg)

\* root.findall('.//{http://www.w3.org/2000/svg}svg'): the list, in document
\* order, of the descendants of the root that carry the namespaced svg tag
findall(nodes) ==
  SelectSeq([i \in 1..Len(nodes) |-> i], LAMBDA i : i > 1 /\ nodes[i].tag = SVG_NS_svg)

\* the condition of line 63
HasPosition(e) == "x" \in DOMAIN e.attrib /\ "y" \in DOMAIN e.attrib

\* the condition of line 72 on the stripped width and height and the viewBox
HasRequired(width, height, viewBox) ==
  width # <<>> /\ height # <<>> /\ viewBox # <<>>

\* the f-string of line 89
TransformStr(x, y, width_num, height_num, vb_w, vb_h) ==
  <<"translate(">> \o FloatStr(x) \o <<",">> \o FloatStr(y) \o <<") scale(">>
  \o Fmt3(width_num.neg, width_num.n, width_num.d * vb_w) \o <<",">>
  \o Fmt3(height_num.neg, height_num.n, height_num.d * vb_h) \o <<")">>

\* lines 86-93: the element becomes a g with the transform, less the attributes
Rewrite(e, transform) ==
  [e EXCEPT !.tag = SVG_NS_g,
            !.attrib = pop(set(e.attrib, "transform", transform), RemovedAttrs)]

\* ProcessElem with the removal of lines 92-93 dedented to the level of the
\* if of line 63: it runs for every element that carries x and y
ProcessElemDedent(e) ==
  IF ~HasPosition(e) THEN [exc |-> "none", e |-> e]
  ELSE
    LET x == float(e.attrib["x"])
        y == float(e.attrib["y"])
        width == StripPx(get(e.attrib, "width", <<>>))
        height == StripPx(get(e.attrib, "height", <<>>))
        viewBox == get(e.attrib, "viewBox", <<>>)
        vb_match == re_match(viewBox)
        vb_w == ToNat(vb_match.g1)
        vb_h == ToNat(vb_match.g2)
        width_num == float(width)
        height_num == float(height)
        popped == [e EXCEPT !.attrib = pop(e.attrib, RemovedAttrs)]
    IN IF ~x.ok \/ ~y.ok THEN [exc |-> "ValueError", e |-> e]
       ELSE IF ~HasRequired(width, height, viewBox) THEN [exc |-> "none", e |-> popped]
       ELSE IF ~vb_match.matched THEN [exc |-> "none", e |-> popped]
       ELSE IF ~width_num.ok \/ ~height_num.ok THEN [exc |-> "none", e |-> popped]
       ELSE IF vb_w = 0 \/ vb_h = 0 THEN [exc |-> "ZeroDivisionError", e |-> e]
       ELSE [exc |-> "none",
             e |-> Rewrite(e, TransformStr(x, y, width_num, height_num, vb_w, vb_h))]

(***************************************************************************)
(* One iteration of the loop of lines 61-97 on element e.  exc is the      *)
(* exception that leaves the loop ("none" when the iteration completes);   *)
(* only the ValueError raised inside the try of lines 73-97 is caught.     *)
(***************************************************************************)
ProcessElem(e) ==
  IF ~HasPosition(e) THEN [exc |-> "none", e |-> e]
  ELSE
    LET x == float(e.attrib["x"])
        y == float(e.attrib["y"])
        width == StripPx(get(e.attrib, "width", <<>>))
        height == StripPx(get(e.attrib, "height", <<>>))
        viewBox == get(e.attrib, "viewBox", <<>>)
        vb_match == re_match(viewBox)
        vb_w == ToNat(vb_match.g1)
        vb_h == ToNat(vb_match.g2)
        width_num == float(width)
        height_num == float(height)
    IN IF ~x.ok \/ ~y.ok THEN [exc |-> "ValueError", e |-> e]
       ELSE IF ~HasRequired(width, height, viewBox) THEN [exc |-> "none", e |-> e]
       ELSE IF ~vb_match.matched THEN [exc |-> "none", e |-> e]
       ELSE IF ~width_num.ok \/ ~height_num.ok THEN [exc |-> "none", e |-> e]
       ELSE IF vb_w = 0 \/ vb_h = 0 THEN [exc |-> "ZeroDivisionError", e |-> e]
       ELSE [exc |-> "none",
             e |-> Rewrite(e, TransformStr(x, y, width_num, height_num, vb_w, vb_h))]

\* the whole loop of lines 61-97 over the list cands, from its k-th entry on
RECURSIVE Loop(_, _, _)
Loop(nodes, cands, k) ==
  IF k > Len(cands) THEN [exc |-> "none", nodes |-> nodes]
  ELSE LET r == ProcessElem(nodes[cands[k]])
       IN IF r.exc # "none" THEN [exc |-> r.exc, nodes |-> nodes]
          ELSE Loop([nodes EXCEPT ![cands[k]] = r.e], cands, k + 1)

(***************************************************************************)
(* Text of a file.  A text that parses is kept as the tree it parses to    *)
(* and decl, whether it opens with an XML declaration (which the parser    *)
(* drops and the serializer never writes); a text that does not parse is   *)
(* kept as its characters.                                                 *)
(***************************************************************************)
Malformed(raw) == [wf |-> FALSE, decl |-> FALSE, raw |-> raw, nodes |-> <<>>]

Xml(decl, nodes) == [wf |-> TRUE, decl |-> decl, raw |-> <<>>, nodes |-> nodes]

\* ET.tostring(root, encoding='unicode')
tostring(nodes) == Xml(FALSE, nodes)

TagName(tag) ==
  IF tag = SVG_NS_svg THEN "svg" ELSE IF tag = SVG_NS_g THEN "g" ELSE "rect"

\* the order in which the attributes of an element are written
AttrOrder ==
  <<"id", "x", "y", "width", "height", "viewBox", "fill", "overflow", "transform">>

RECURSIVE AttrChars(_, _)
AttrChars(attrib, k) ==
  IF k > Len(AttrOrder) THEN <<>>
  ELSE (IF AttrOrder[k] \in DOMAIN attrib
        THEN <<" ", AttrOrder[k], "=\"">> \o attrib[AttrOrder[k]] \o <<"\"">>
        ELSE <<>>)
       \o AttrChars(attrib, k + 1)

Children(nodes, i) ==
  SelectSeq([j \in 1..Len(nodes) |-> j], LAMBDA j : nodes[j].parent = i)

\* the characters the serializer writes for element i and its subtree
RECURSIVE ElemChars(_, _)
RECURSIVE KidsChars(_, _, _)
ElemChars(nodes, i) ==
  LET kids == Children(nodes, i)
      open == <<"<", TagName(nodes[i].tag)>>
              \o (IF i = 1 THEN <<" xmlns=\"http://www.w3.org/2000/svg\"">> ELSE <<>>)
              \o AttrChars(nodes[i].attrib, 1)
  IN IF kids = <<>> THEN open \o <<" />">>
     ELSE open \o <<">">> \o KidsChars(nodes, kids, 1)
          \o <<"</", TagName(nodes[i].tag), ">">>
KidsChars(nodes, kids, k) ==
  IF k > Len(kids) THEN <<>>
  ELSE ElemChars(nodes, kids[k]) \o KidsChars(nodes, kids, k + 1)

\* the characters of a text
Chars(text) ==
  IF ~text.wf THEN text.raw
  ELSE (IF text.decl THEN <<"<?xml version=\"1.0\"?>">> ELSE <<>>)
       \o ElemChars(text.nodes, 1)

(***************************************************************************)
(* process_svg_file as a function of the content read from the file.       *)
(***************************************************************************)
process_svg_file(content) ==
  IF ~content.wf THEN [exc |-> "none", content |-> content]
  ELSE LET r == Loop(content.nodes, findall(content.nodes), 1)
       IN IF r.exc # "none" THEN [exc |-> r.exc, content |-> content]
          ELSE [exc |-> "none", content |-> tostring(r.nodes)]

(***************************************************************************)
(* The emitter's string operations.                                        *)
(***************************************************************************)
DotSvg == <<".", "s", "v", "g">>

\* endswith without regard to case, for the names drawn
endswithAnyCase(filename) ==
  /\ Len(filename) >= 4
  /\ SubSeq(filename, Len(filename) - 3, Len(filename)) \in {DotSvg, <<".", "S", "V", "G">>}

\* filename.endswith('.svg')
endswith(filename) ==
  Len(filename) >= 4 /\ SubSeq(filename, Len(filename) - 3, Len(filename)) = DotSvg

\* filename[:-4]
group_name(filename) == SubSeq(filename, 1, Len(filename) - 4)

\* the backtick character (written by its code point: the character itself
\* cannot stand in a string literal of this language)
Backtick == "U+0060"

Backslash == "\\"

\* Escape with a count of 1: only the first backtick is escaped
EscapeFirst(s) ==
  IF \A k \in 1..Len(s) : s[k] # Backtick THEN s
  ELSE LET p == CHOOSE k \in 1..Len(s) : s[k] = Backtick /\ \A j \in 1..(k - 1) : s[j] # Backtick
       IN SubSeq(s, 1, p - 1) \o <<Backslash>> \o SubSeq(s, p, Len(s))

\* svg_content.replace(backtick, backslash + backtick): the pattern is one
\* character, so the replacement is made in each half of the text on its own
RECURSIVE Escape(_)
Escape(s) ==
  IF s = <<>> THEN <<>>
  ELSE IF Len(s) = 1 THEN (IF s[1] = Backtick THEN <<Backslash, Backtick>> ELSE s)
  ELSE Escape(SubSeq(s, 1, Len(s) \div 2)) \o Escape(SubSeq(s, (Len(s) \div 2) + 1, Len(s)))

\* the header written by lines 117-122
Header ==
  <<"/**\n * QR code SVG exports generated from SVG files\n * Generated by generate-qrcodes-ts script\n */\n">>

\* the f-string written by lines 142-145
Fragment(name, value) ==
  <<"\n// ">> \o name \o <<" QR Code SVG\nexport const QRCode_">> \o name
  \o <<" = ", Backtick>> \o value \o <<Backtick, ";\n">>

(***************************************************************************)
(* Inputs: attribute values, elements, documents, directories.             *)
(***************************************************************************)
V0 == <<"0">>
V10 == <<"1", "0">>
V20 == <<"2", "0">>
V2p5 == <<"2", ".", "5">>
V100 == <<"1", "0", "0">>
V50 == <<"5", "0">>
V2 == <<"2">>
V3 == <<"3">>
V1px == <<"1", "p", "x">>
Vpx == <<"p", "x">>
Vabc == <<"a", "b", "c">>
V50pct == <<"5", "0", "%">>
Vnone == <<"n", "o", "n", "e">>
Vvisible == <<"v", "i", "s", "i", "b", "l", "e">>
VB200x100 == <<"0", " ", "0", " ", "2", "0", "0", " ", "1", "0", "0">>
VB16x3 == <<"0", " ", "0", " ", "1", "6", " ", "3">>
VB0x100 == <<"0", " ", "0", " ", "0", " ", "1", "0", "0">>
VBorigin == <<"5", " ", "5", " ", "2", "0", "0", " ", "1", "0", "0">>
VBtrailing == VB200x100 \o <<" ", "z">>
VBfracH == <<"0", " ", "0", " ", "2", "0", "0", " ", "1", ".", "5">>
VBfracW == <<"0", " ", "0", " ", "2", ".", "5", " ", "1", "0", "0">>
VBleading == <<" ">> \o VB200x100

El(tag, attrib) == [tag |-> tag, attrib |-> attrib]

\* the nested element of the documented example
ElExample ==
  El(SVG_NS_svg, [x |-> V10, y |-> V20, width |-> V100, height |-> V50,
                  viewBox |-> VB200x100, fill |-> Vnone, overflow |-> Vvisible])
\* pixel suffix, fractional y, a scale that is an exact tie (1/16 = 0.0625)
\* and one that rounds up (2/3)
ElPx ==
  El(SVG_NS_svg, [x |-> V0, y |-> V2p5, width |-> V1px, height |-> V2, viewBox |-> VB16x3])
ElNoViewBox ==
  El(SVG_NS_svg, [x |-> V10, y |-> V20, width |-> V100, height |-> V50, fill |-> Vnone])
ElEmptyWidth ==
  El(SVG_NS_svg, [x |-> V10, y |-> V20, width |-> Vpx, height |-> V50,
                  viewBox |-> VB200x100, overflow |-> Vvisible])
ElNoHeight ==
  El(SVG_NS_svg, [x |-> V10, y |-> V20, width |-> V100, viewBox |-> VB200x100])
ElBadX ==
  El(SVG_NS_svg, [x |-> Vabc, y |-> V20, width |-> V100, height |-> V50, viewBox |-> VB200x100])
ElBadWidth ==
  El(SVG_NS_svg, [x |-> V10, y |-> V20, width |-> V50pct, height |-> V50, viewBox |-> VB200x100])
ElZeroW ==
  El(SVG_NS_svg, [x |-> V10, y |-> V20, width |-> V100, height |-> V50, viewBox |-> VB0x100])
ElOrigin ==
  El(SVG_NS_svg, [x |-> V10, y |-> V20, width |-> V100, height |-> V50, viewBox |-> VBorigin])
ElTrailing ==
  El(SVG_NS_svg, [x |-> V10, y |-> V20, width |-> V100, height |-> V50, viewBox |-> VBtrailing])
ElFracH ==
  El(SVG_NS_svg, [x |-> V10, y |-> V20, width |-> V100, height |-> V3, viewBox |-> VBfracH])
ElFracW ==
  El(SVG_NS_svg, [x |-> V10, y |-> V20, width |-> V100, height |-> V50, viewBox |-> VBfracW])
ElLeading ==
  El(SVG_NS_svg, [x |-> V10, y |-> V20, width |-> V100, height |-> V50, viewBox |-> VBleading])
ElNoX ==
  El(SVG_NS_svg, [y |-> V20, width |-> V100, height |-> V50, viewBox |-> VB200x100])
ElRect ==
  El(SVG_NS_rect, [x |-> V10, y |-> V20, width |-> V100, height |-> V50])

ElemKinds ==
  {ElExample, ElPx, ElNoViewBox, ElEmptyWidth, ElNoHeight, ElBadX, ElBadWidth, ElZeroW,
   ElOrigin, ElTrailing, ElFracH, ElFracW, ElLeading, ElNoX, ElRect}

\* a root without position, and a root that carries everything a candidate
\* carries and an id with a backtick in it
RootPlain == El(SVG_NS_svg, [width |-> V100, height |-> V100, viewBox |-> VB200x100])
RootPositioned ==
  El(SVG_NS_svg, [id |-> <<"q", Backtick>>, x |-> V10, y |-> V20, width |-> V100,
                  height |-> V50, viewBox |-> VB200x100])

RootKinds == {RootPlain, RootPositioned}

\* i or one of its ancestors is a, under the parents pv (pv[1] = 0)
RECURSIVE OnPath(_, _, _)
OnPath(pv, i, a) == i = a \/ (i > 1 /\ OnPath(pv, pv[i], a))

\* the parents of the elements 1..n+1 of a tree listed in document order
ParentVecs(n) ==
  {pv \in [1..(n + 1) -> 0..n] :
     /\ pv[1] = 0
     /\ \A i \in 2..(n + 1) : pv[i] >= 1 /\ pv[i] < i /\ OnPath(pv, i - 1, pv[i])}

Tree(rk, pv, ks) ==
  [i \in 1..Len(pv) |->
     IF i = 1 THEN [tag |-> rk.tag, parent |-> 0, attrib |-> rk.attrib]
     ELSE [tag |-> ks[i - 1].tag, parent |-> pv[i], attrib |-> ks[i - 1].attrib]]

\* the kinds of the elements that accompany the one drawn from all kinds:
\* one that is rewritten, one that is skipped, one that raises, one that is
\* no candidate
CompanionKinds == {ElExample, ElNoViewBox, ElBadX, ElRect}

\* the kinds of the n elements below the root: at most one of them is drawn
\* from all of ElemKinds, the others from CompanionKinds
KindVecs(n) ==
  {ks \in [1..n -> ElemKinds] :
     \E i \in 1..n : \A j \in (1..n) \ {i} : ks[j] \in CompanionKinds}
  \cup [1..n -> CompanionKinds]

Trees ==
  UNION {{Tree(rk, pv, ks) : rk \in RootKinds, pv \in ParentVecs(n), ks \in KindVecs(n)}
         : n \in 0..MaxNodes}

\* texts that do not parse
RawTexts == {<<>>, <<"<", "s", "v", "g", " ", Backtick>>, <<"<", Backslash, Backtick, Backtick>>}

AllDocs == {Malformed(r) : r \in RawTexts} \cup {Xml(d, t) : d \in BOOLEAN, t \in Trees}

SmallDocs ==
  {Malformed(<<"<", "s", "v", "g", " ", Backtick>>),
   Xml(FALSE, Tree(RootPlain, <<0>>, <<>>)),
   Xml(TRUE, Tree(RootPlain, <<0>>, <<>>)),
   Xml(FALSE, Tree(RootPositioned, <<0, 1>>, <<ElExample>>)),
   Xml(FALSE, Tree(RootPlain, <<0, 1>>, <<ElBadX>>))}

\* no text yet
None == Malformed(<<"None">>)

NameA == <<"a">> \o DotSvg
NameB == <<"b">> \o DotSvg
NameTick == <<"c", Backtick>> \o DotSvg
NameUpper == <<"d", ".", "S", "V", "G">>
NameTs == <<"q", ".", "t", "s">>

SvgNames == {NameA, NameB, NameTick}
OtherNames == {NameUpper, NameTs}

\* a directory entry; an entry that is not readable makes open() raise
Entry(name, readable, content) == [name |-> name, readable |-> readable, content |-> content]

SmallEntries ==
  {Entry(nm, TRUE, d) : nm \in SvgNames, d \in SmallDocs}
  \cup {Entry(nm, FALSE, None) : nm \in SvgNames}
  \cup {Entry(nm, TRUE, None) : nm \in OtherNames}

\* a directory of one file holding any document, or of up to MaxFiles
\* entries of distinct names, in the order os.listdir yields them
Dirs ==
  {<<Entry(NameA, TRUE, d)>> : d \in AllDocs}
  \cup UNION {{ds \in [1..n -> SmallEntries] :
                 \A i, j \in 1..n : i # j => ds[i].name # ds[j].name}
              : n \in 0..MaxFiles}

\* what the output file holds before the run
PrevOut == {<<>>, <<Header, Fragment(<<"o", "l", "d">>, <<"<", "s", "v", "g", " />">>)>>}

(***************************************************************************)
(* State.                                                                  *)
(***************************************************************************)
VARIABLES
  dir,          \* the directory, as os.listdir yields it
  out,          \* the output file: the strings written to it, in order
  stdout,       \* the lines printed
  pc,           \* position of the run
  idx,          \* position of the loop of line 125 in the listing
  content,      \* process_svg_file: the text read (line 51)
  root,         \* process_svg_file: the parsed tree
  cands,        \* process_svg_file: the list findall returned
  ci,           \* process_svg_file: position of the loop of line 61 in cands
  examined,     \* the elements the loop of line 61 has taken, in order
  svg_content,  \* main: what process_svg_file returned
  exc           \* the exception that ended the run, "none" while there is none

vars == <<dir, out, stdout, pc, idx, content, root, cands, ci, examined, svg_content, exc>>

Init ==
  /\ dir \in Dirs
  /\ out \in PrevOut
  /\ stdout = <<>>
  /\ pc = "start"
  /\ idx = 0
  /\ content = None
  /\ root = <<>>
  /\ cands = <<>>
  /\ ci = 0
  /\ examined = <<>>
  /\ svg_content = None
  /\ exc = "none"

\* an uncaught exception ends the run where it is
Raise(e) == exc' = e /\ pc' = "aborted"

\* WriteHeader with the file opened in append mode
WriteHeaderAppends ==
  /\ pc = "start"
  /\ stdout' = Append(stdout, <<"Generating qrcodes.ts from SVG files...">>)
  /\ out' = out \o <<Header>>
  /\ pc' = "list"
  /\ UNCHANGED <<dir, idx, content, root, cands, ci, examined, svg_content, exc>>

\* lines 114-122: the header replaces whatever the output file held
WriteHeader ==
  /\ pc = "start"
  /\ stdout' = Append(stdout, <<"Generating qrcodes.ts from SVG files...">>)
  /\ out' = <<Header>>
  /\ pc' = "list"
  /\ UNCHANGED <<dir, idx, content, root, cands, ci, examined, svg_content, exc>>

\* line 117: the output file cannot be opened for writing
WriteHeaderFails ==
  /\ pc = "start"
  /\ stdout' = Append(stdout, <<"Generating qrcodes.ts from SVG files...">>)
  /\ Raise("OSError")
  /\ UNCHANGED <<dir, out, idx, content, root, cands, ci, examined, svg_content>>

\* line 125: os.listdir
ListDir ==
  /\ pc = "list"
  /\ idx' = 1
  /\ pc' = "loop"
  /\ UNCHANGED <<dir, out, stdout, content, root, cands, ci, examined, svg_content, exc>>

\* lines 125-126: an entry whose name does not end in .svg is passed over
SkipEntry ==
  /\ pc = "loop" /\ idx <= Len(dir)
  /\ ~endswith(dir[idx].name)
  /\ idx' = idx + 1
  /\ UNCHANGED <<dir, out, stdout, pc, content, root, cands, ci, examined, svg_content, exc>>

\* lines 126-135: an entry whose name ends in .svg is handed to process_svg_file
BeginFile ==
  /\ pc = "loop" /\ idx <= Len(dir)
  /\ endswith(dir[idx].name)
  /\ stdout' = Append(stdout, <<"Processing ">> \o group_name(dir[idx].name) \o <<"...">>)
  /\ pc' = "read"
  /\ UNCHANGED <<dir, out, idx, content, root, cands, ci, examined, svg_content, exc>>

\* lines 50-51
ReadFile ==
  /\ pc = "read" /\ dir[idx].readable
  /\ content' = dir[idx].content
  /\ pc' = "parse"
  /\ UNCHANGED <<dir, out, stdout, idx, root, cands, ci, examined, svg_content, exc>>

\* line 50: open() raises
ReadFileFails ==
  /\ pc = "read" /\ ~dir[idx].readable
  /\ Raise("OSError")
  /\ UNCHANGED <<dir, out, stdout, idx, content, root, cands, ci, examined, svg_content>>

\* ParseError without the except of line 56: the exception leaves the function
ParseErrorRaises ==
  /\ pc = "parse" /\ ~content.wf
  /\ Raise("ParseError")
  /\ UNCHANGED <<dir, out, stdout, idx, content, root, cands, ci, examined, svg_content>>

\* lines 54-58: the text does not parse and is returned as it was read
ParseError ==
  /\ pc = "parse" /\ ~content.wf
  /\ stdout' = Append(stdout, <<"Error parsing ">> \o dir[idx].name)
  /\ svg_content' = content
  /\ pc' = "append"
  /\ UNCHANGED <<dir, out, idx, content, root, cands, ci, examined, exc>>

\* lines 55 and 61: the text parses; findall lists the candidates
Parse ==
  /\ pc = "parse" /\ content.wf
  /\ root' = content.nodes
  /\ cands' = findall(content.nodes)
  /\ ci' = 1
  /\ examined' = <<>>
  /\ pc' = "elem"
  /\ UNCHANGED <<dir, out, stdout, idx, content, svg_content, exc>>

\* Iterate over a live iterator: after an element is rewritten the next
\* candidate is passed over
IterateSkips ==
  /\ pc = "elem" /\ ci <= Len(cands)
  /\ LET r == ProcessElem(root[cands[ci]])
     IN /\ r.exc = "none"
        /\ root' = [root EXCEPT ![cands[ci]] = r.e]
        /\ ci' = IF r.e # root[cands[ci]] THEN ci + 2 ELSE ci + 1
  /\ examined' = Append(examined, cands[ci])
  /\ UNCHANGED <<dir, out, stdout, pc, idx, content, cands, svg_content, exc>>

\* lines 61-97: one iteration, which completes
Iterate ==
  /\ pc = "elem" /\ ci <= Len(cands)
  /\ LET r == ProcessElem(root[cands[ci]])
     IN /\ r.exc = "none"
        /\ root' = [root EXCEPT ![cands[ci]] = r.e]
  /\ examined' = Append(examined, cands[ci])
  /\ ci' = ci + 1
  /\ UNCHANGED <<dir, out, stdout, pc, idx, content, cands, svg_content, exc>>

\* lines 61-97: one iteration, which raises past the except of line 95
IterateRaises ==
  /\ pc = "elem" /\ ci <= Len(cands)
  /\ LET r == ProcessElem(root[cands[ci]])
     IN /\ r.exc # "none"
        /\ Raise(r.exc)
  /\ examined' = Append(examined, cands[ci])
  /\ UNCHANGED <<dir, out, stdout, idx, content, root, cands, ci, svg_content>>

\* lines 99-102: the loop is over; the tree is serialized and returned
Serialize ==
  /\ pc = "elem" /\ ci > Len(cands)
  /\ svg_content' = tostring(root)
  /\ pc' = "append"
  /\ UNCHANGED <<dir, out, stdout, idx, content, root, cands, ci, examined, exc>>

\* lines 137-145: the escaped content is appended as one export fragment
AppendExport ==
  /\ pc = "append"
  /\ out' = Append(out, Fragment(group_name(dir[idx].name), Escape(Chars(svg_content))))
  /\ idx' = idx + 1
  /\ pc' = "loop"
  /\ content' = None /\ root' = <<>> /\ cands' = <<>> /\ ci' = 0 /\ examined' = <<>>
  /\ svg_content' = None
  /\ UNCHANGED <<dir, stdout, exc>>

\* line 141: the output file cannot be opened for appending
AppendExportFails ==
  /\ pc = "append"
  /\ Raise("OSError")
  /\ UNCHANGED <<dir, out, stdout, idx, content, root, cands, ci, examined, svg_content>>

\* line 147: the listing is exhausted
Finish ==
  /\ pc = "loop" /\ idx > Len(dir)
  /\ stdout' = Append(stdout, <<"Generated qrcodes.ts successfully! Output file: qrcodes.ts">>)
  /\ pc' = "done"
  /\ UNCHANGED <<dir, out, idx, content, root, cands, ci, examined, svg_content, exc>>

Next ==
  \/ WriteHeader \/ WriteHeaderFails \/ ListDir \/ SkipEntry \/ BeginFile
  \/ ReadFile \/ ReadFileFails \/ ParseError \/ Parse
  \/ Iterate \/ IterateRaises \/ Serialize
  \/ AppendExport \/ AppendExportFails \/ Finish

Spec == Init /\ [][Next]_vars

(***************************************************************************)
(* Vocabulary of the properties.                                           *)
(***************************************************************************)
Range(q) == {q[k] : k \in 1..Len(q)}

Count(q, v) == Cardinality({k \in 1..Len(q) : q[k] = v})

AllDigits(q) == q # <<>> /\ \A k \in 1..Len(q) : IsDigit(q[k])

\* the whole value is "0 0 W H", W and H sequences of digits
IsViewBox00(vb) ==
  /\ Len(vb) >= 7
  /\ SubSeq(vb, 1, 4) = <<"0", " ", "0", " ">>
  /\ \E k \in 6..(Len(vb) - 1) :
       /\ vb[k] = " "
       /\ AllDigits(SubSeq(vb, 5, k - 1))
       /\ AllDigits(SubSeq(vb, k + 1, Len(vb)))

ViewBoxW(vb) == ToNat(SubSeq(vb, 5, (CHOOSE k \in 6..(Len(vb) - 1) : vb[k] = " ") - 1))

ViewBoxH(vb) == ToNat(SubSeq(vb, (CHOOSE k \in 6..(Len(vb) - 1) : vb[k] = " ") + 1, Len(vb)))

\* a number, or a number followed by px
WithoutPx(v) ==
  IF Len(v) >= 2 /\ SubSeq(v, Len(v) - 1, Len(v)) = <<"p", "x">>
  THEN SubSeq(v, 1, Len(v) - 2) ELSE v

NumericPx(v) == float(WithoutPx(v)).ok

\* tag and attributes of an element of a tree
Kind(node) == [tag |-> node.tag, attrib |-> node.attrib]

\* the original tree of the file being processed
orig == dir[idx].content.nodes

\* process_svg_file is at work on, or has returned from, a text that parsed
InFile == pc \in {"elem", "append", "aborted"} /\ content.wf /\ root # <<>>

\* process_svg_file has returned the serialization of the tree
Returned == pc = "append" /\ content.wf

\* a nested svg element with x, y, numeric width and height, viewBox "0 0 W H"
Qualifies(e) ==
  /\ e.tag = SVG_NS_svg
  /\ {"x", "y", "width", "height", "viewBox"} \subseteq DOMAIN e.attrib
  /\ NumericPx(e.attrib["width"]) /\ NumericPx(e.attrib["height"])
  /\ IsViewBox00(e.attrib["viewBox"])

SameNumber(v, w) == v.ok /\ w.ok /\ v.n * w.d = w.n * v.d /\ (v.n # 0 => v.neg = w.neg)

\* text is a number with exactly three fractional digits, the nearest such
\* to num/den
IsScale3(text, num, den) ==
  LET v == float(text)
  IN /\ Len(text) >= 5 /\ text[Len(text) - 3] = "."
     /\ v.ok /\ v.d = 1000
     /\ LET diff == v.n * den - 1000 * num
        IN 2 * (IF diff < 0 THEN -diff ELSE diff) <= den

Pos(q, v, from) == CHOOSE k \in from..Len(q) : q[k] = v /\ \A j \in from..(k - 1) : q[j] # v

\* t is translate(x,y) scale(width/W,height/H) for the values of element e
IsTransformOf(t, e) ==
  /\ Len(t) >= 9 /\ t[1] = "translate(" /\ t[Len(t)] = ")"
  /\ \E k \in 2..Len(t) : t[k] = ","
  /\ \E k \in 2..Len(t) : t[k] = ") scale("
  /\ LET c1 == Pos(t, ",", 2)
         sc == Pos(t, ") scale(", 2)
     IN /\ c1 < sc
        /\ \E k \in (sc + 1)..Len(t) : t[k] = ","
        /\ LET c2 == Pos(t, ",", sc + 1)
               w == float(WithoutPx(e.attrib["width"]))
               h == float(WithoutPx(e.attrib["height"]))
           IN /\ SameNumber(float(SubSeq(t, 2, c1 - 1)), float(e.attrib["x"]))
              /\ SameNumber(float(SubSeq(t, c1 + 1, sc - 1)), float(e.attrib["y"]))
              /\ IsScale3(SubSeq(t, sc + 1, c2 - 1), w.n, w.d * ViewBoxW(e.attrib["viewBox"]))
              /\ IsScale3(SubSeq(t, c2 + 1, Len(t) - 1), h.n, h.d * ViewBoxH(e.attrib["viewBox"]))

\* element now is the g that element before is to become
IsRewritten(now, before) ==
  /\ now.tag = SVG_NS_g
  /\ "transform" \in DOMAIN now.attrib
  /\ IsTransformOf(now.attrib["transform"], before)
  /\ (DOMAIN now.attrib) \cap {"x", "y", "width", "height", "viewBox", "fill", "overflow"} = {}

ExampleTransform ==
  <<"translate(", "1", "0", ".", "0", ",", "2", "0", ".", "0", ") scale(",
    "0", ".", "5", "0", "0", ",", "0", ".", "5", "0", "0", ")">>

(***************************************************************************)
(* C1 as claimed: every nested svg element that carries x and y, a numeric *)
(* width and height (optionally with px) and a viewBox "0 0 W H" with      *)
(* integers W and H is, once the loop has taken it, a g whose transform is *)
(* translate(x,y) scale(width/W,height/H) with 3-decimal scale factors and *)
(* without x, y, width, height, viewBox, fill, overflow.                   *)
(***************************************************************************)
C1_AsClaimed ==
  InFile =>
    \A i \in Range(examined) : Qualifies(orig[i]) => IsRewritten(root[i], orig[i])

\* the element can be rewritten at all: x and y are numbers, W and H are not 0
Rewritable(e) ==
  /\ Qualifies(e)
  /\ float(e.attrib["x"]).ok /\ float(e.attrib["y"]).ok
  /\ ViewBoxW(e.attrib["viewBox"]) >= 1 /\ ViewBoxH(e.attrib["viewBox"]) >= 1

(***************************************************************************)
(* C1 amended: every nested svg element that carries a numeric x and y, a  *)
(* numeric width and height (optionally with px) and a viewBox "0 0 W H"   *)
(* with positive integers W and H is, once the loop has taken it and in    *)
(* the text the normalizer returns, a g whose transform is translate(x,y)  *)
(* scale(width/W,height/H) with 3-decimal scale factors and without x, y,  *)
(* width, height, viewBox, fill, overflow; x=10, y=20, width=100,          *)
(* height=50, viewBox "0 0 200 100" gives translate(10.0,20.0)             *)
(* scale(0.500,0.500).                                                     *)
(***************************************************************************)
C1_Rewrite ==
  /\ InFile =>
       \A i \in Range(examined) :
         Rewritable(orig[i]) =>
           /\ IsRewritten(root[i], orig[i])
           /\ Kind(orig[i]) = ElExample => root[i].attrib["transform"] = ExampleTransform
  /\ Returned =>
       \A i \in 2..Len(orig) :
         Rewritable(orig[i]) =>
           /\ IsRewritten(svg_content.nodes[i], orig[i])
           /\ Kind(orig[i]) = ElExample
                => svg_content.nodes[i].attrib["transform"] = ExampleTransform

\* the documented example has been rewritten and returned, children kept
C1_Witness ==
  /\ Returned
  /\ \E i \in 2..Len(orig) :
       /\ Kind(orig[i]) = ElExample
       /\ svg_content.nodes[i].tag = SVG_NS_g
       /\ svg_content.nodes[i].attrib = [transform |-> ExampleTransform]
       /\ \E j \in 2..Len(orig) : orig[j].parent = i /\ svg_content.nodes[j].parent = i
  /\ \E i \in 2..Len(orig) : Kind(orig[i]) = ElPx /\ svg_content.nodes[i].tag = SVG_NS_g

(***************************************************************************)
(* More vocabulary: the listing and the output document.                   *)
(***************************************************************************)
IsSvgName(name) ==
  Len(name) >= 4 /\ SubSeq(name, Len(name) - 3, Len(name)) = <<".", "s", "v", "g">>

BaseName(name) == SubSeq(name, 1, Len(name) - 4)

\* the number of entries named *.svg among the first k of the listing
SvgCount(k) == Cardinality({j \in 1..k : IsSvgName(dir[j].name)})

\* the header has replaced the previous content of the output file
HeaderWritten == pc # "start" /\ ~(pc = "aborted" /\ idx = 0)

\* the number of entries of the listing the loop of line 125 is done with
Processed == IF idx = 0 THEN 0 ELSE idx - 1

IsPrefix(p, q) == Len(p) <= Len(q) /\ SubSeq(q, 1, Len(p)) = p

\* the position in the fragment f of the opening delimiter of its template
OpenDelim(f) == Pos(f, " = ", 1) + 1

\* the positions in the fragment f at which the name of the file stands
NamePositions(f, n) == (2..(1 + n)) \cup ((3 + n)..(2 + 2 * n))

\* the listing index of the m-th entry named *.svg
SvgEntryAt(m) == CHOOSE j \in 1..Len(dir) : IsSvgName(dir[j].name) /\ SvgCount(j) = m

(***************************************************************************)
(* C2: a text that fails to parse is returned exactly as read, no          *)
(* exception of the parser reaches the caller, the failure shows only as   *)
(* the notice "Error parsing <file>", and the emitter has emitted the      *)
(* fragment of every such file it is done with, holding the escaped        *)
(* original text, before it went on to the next entry.                     *)
(***************************************************************************)
C2_ParseFailure ==
  /\ exc # "ParseError"
  /\ (pc = "append" /\ ~content.wf) =>
       /\ svg_content = dir[idx].content
       /\ exc = "none"
       /\ stdout[Len(stdout)] = <<"Error parsing ">> \o dir[idx].name
  /\ HeaderWritten =>
       \A j \in 1..Processed :
         (IsSvgName(dir[j].name) /\ ~dir[j].content.wf) =>
           /\ Len(out) >= 1 + SvgCount(j)
           /\ out[1 + SvgCount(j)] =
                Fragment(BaseName(dir[j].name), Escape(dir[j].content.raw))

\* a file that failed to parse has its fragment in the output and the
\* emitter is at work on the entry after it
C2_Witness ==
  /\ idx = 2 /\ pc \in {"read", "parse"}
  /\ ~dir[1].content.wf /\ IsSvgName(dir[1].name) /\ dir[1].content.raw # <<>>
  /\ Len(out) = 2
  /\ \E k \in 1..Len(stdout) : stdout[k] = <<"Error parsing ">> \o dir[1].name

\* the element cannot be converted: a number fails to parse or W or H is 0
NumericFails(e) ==
  /\ e.tag = SVG_NS_svg /\ HasPosition(e)
  /\ \/ ~float(e.attrib["x"]).ok \/ ~float(e.attrib["y"]).ok
     \/ /\ {"width", "height", "viewBox"} \subseteq DOMAIN e.attrib
        /\ IsViewBox00(e.attrib["viewBox"])
        /\ \/ ~NumericPx(e.attrib["width"]) \/ ~NumericPx(e.attrib["height"])
           \/ ViewBoxW(e.attrib["viewBox"]) = 0 \/ ViewBoxH(e.attrib["viewBox"]) = 0

(***************************************************************************)
(* C3 as claimed: a numeric failure on one candidate never ends the run,   *)
(* the element it happened on is left as it was, and every candidate of    *)
(* the file has been taken when the normalizer returns.                    *)
(***************************************************************************)
C3_AsClaimed ==
  /\ exc \notin {"ValueError", "ZeroDivisionError"}
  /\ InFile => \A i \in Range(examined) : NumericFails(orig[i]) => root[i] = orig[i]
  /\ Returned => examined = cands

\* a nested svg with x and y that lacks a viewBox, or a width or height
\* that is not empty once px is stripped
Lacking(e) ==
  /\ e.tag = SVG_NS_svg /\ HasPosition(e)
  /\ \/ "viewBox" \notin DOMAIN e.attrib
     \/ "width" \notin DOMAIN e.attrib \/ "height" \notin DOMAIN e.attrib
     \/ e.attrib["width"] \in {<<>>, <<"p", "x">>}
     \/ e.attrib["height"] \in {<<>>, <<"p", "x">>}

(***************************************************************************)
(* C4: a nested svg element with x and y that lacks a viewBox, or whose    *)
(* width or height is absent or empty once px is stripped, keeps its tag   *)
(* and all its attributes, in the tree at every point of the loop and in   *)
(* the text the normalizer returns.                                        *)
(***************************************************************************)
C4_Untouched ==
  /\ InFile => \A i \in 2..Len(orig) : Lacking(orig[i]) => root[i] = orig[i]
  /\ Returned => \A i \in 2..Len(orig) : Lacking(orig[i]) => svg_content.nodes[i] = orig[i]

\* an element without viewBox (with fill) and one with an empty width (with
\* overflow) were taken by the loop and returned as they were
C4_Witness ==
  /\ Returned
  /\ \E i, j \in Range(examined) :
       /\ Kind(orig[i]) = ElNoViewBox
       /\ Kind(orig[j]) = ElEmptyWidth
       /\ svg_content.nodes[i] = orig[i] /\ svg_content.nodes[j] = orig[j]
       /\ "fill" \in DOMAIN svg_content.nodes[i].attrib
       /\ "overflow" \in DOMAIN svg_content.nodes[j].attrib

PlainSvgDir ==
  \A j \in 1..Len(dir) :
    IsSvgName(dir[j].name) =>
      /\ dir[j].readable /\ dir[j].content.wf
      /\ \A i \in 2..Len(dir[j].content.nodes) :
           ~(dir[j].content.nodes[i].tag = SVG_NS_svg /\ HasPosition(dir[j].content.nodes[i]))

\* header, then for each entry named *.svg among the first k the fragment
\* whose value is the escaped original text
RECURSIVE VerbatimExports(_)
VerbatimExports(k) ==
  IF k = 0 THEN <<Header>>
  ELSE VerbatimExports(k - 1)
       \o (IF IsSvgName(dir[k].name)
           THEN <<Fragment(BaseName(dir[k].name), Escape(Chars(dir[k].content)))>>
           ELSE <<>>)

\* the same with the escaped serialization of the tree of the text as value
RECURSIVE SerializedExports(_)
SerializedExports(k) ==
  IF k = 0 THEN <<Header>>
  ELSE SerializedExports(k - 1)
       \o (IF IsSvgName(dir[k].name)
           THEN <<Fragment(BaseName(dir[k].name),
                           Escape(ElemChars(dir[k].content.nodes, 1)))>>
           ELSE <<>>)

(***************************************************************************)
(* C6 as claimed: for a directory whose *.svg entries parse and have no    *)
(* nested positioned svg, the finished output is the header and exactly    *)
(* one export per *.svg entry, named after the file name less its last 4   *)
(* characters, whose value is the original content verbatim with           *)
(* backticks escaped.                                                      *)
(***************************************************************************)
C6_AsClaimed ==
  (pc = "done" /\ PlainSvgDir) => out = VerbatimExports(Len(dir))

(***************************************************************************)
(* C6 amended: for such a directory the finished output is the header and  *)
(* exactly one export per *.svg entry and none for any other, named after  *)
(* the file name less its last 4 characters, whose value is the            *)
(* serialization of the file's parsed tree with backticks escaped; that is *)
(* the original content verbatim when the content is in the serializer's   *)
(* own form (here: has no XML declaration).                                *)
(***************************************************************************)
C6_Exports ==
  (pc = "done" /\ PlainSvgDir) =>
    /\ out = SerializedExports(Len(dir))
    /\ Len(out) = 1 + SvgCount(Len(dir))
    /\ (\A j \in 1..Len(dir) : IsSvgName(dir[j].name) => ~dir[j].content.decl)
         => out = VerbatimExports(Len(dir))

\* a.svg and b.svg, both plain, one of them in another form than the
\* serializer's, exported as QRCode_a and QRCode_b
C6_Witness ==
  /\ pc = "done" /\ PlainSvgDir
  /\ Len(dir) = 2 /\ dir[1].name = NameA /\ dir[2].name = NameB
  /\ dir[1].content.decl /\ ~dir[2].content.decl
  /\ Len(out) = 3
  /\ SubSeq(out[2], 1, 4) = <<"\n// ", "a", " QR Code SVG\nexport const QRCode_", "a">>
  /\ SubSeq(out[3], 1, 4) = <<"\n// ", "b", " QR Code SVG\nexport const QRCode_", "b">>

\* the positions of the fragment f whose backtick has no backslash before it
Unescaped(f) == {q \in 1..Len(f) : f[q] = Backtick /\ (q = 1 \/ f[q - 1] # Backslash)}

(***************************************************************************)
(* C7 as claimed: in every export fragment the only backticks without a    *)
(* backslash before them are the two delimiters of the template string.    *)
(***************************************************************************)
C7_AsClaimed ==
  HeaderWritten =>
    \A k \in 2..Len(out) : Unescaped(out[k]) \subseteq {OpenDelim(out[k]), Len(out[k]) - 1}

(***************************************************************************)
(* C7 amended: in every export fragment every backtick of the value, which *)
(* has as many backticks as the text the normalizer returned, has a        *)
(* backslash of the value right before it, so the only backticks of a      *)
(* fragment without a backslash before them are the two delimiters of the  *)
(* template string and the backticks of the file name.                     *)
(***************************************************************************)
C7_Escaped ==
  HeaderWritten =>
    \A k \in 2..Len(out) :
      LET f == out[k]
          j == SvgEntryAt(k - 1)
          n == Len(BaseName(dir[j].name))
          open == OpenDelim(f)
      IN /\ open = 2 * n + 4 /\ f[open] = Backtick /\ f[Len(f) - 1] = Backtick
         /\ \A q \in (open + 1)..(Len(f) - 2) :
              f[q] = Backtick => (q - 1 > open /\ f[q - 1] = Backslash)
         /\ Count(SubSeq(f, open + 1, Len(f) - 2), Backtick)
              = Count(Chars(process_svg_file(dir[j].content).content), Backtick)
         /\ Unescaped(f) \subseteq {open, Len(f) - 1} \cup NamePositions(f, n)

\* a fragment whose value holds two escaped backticks
C7_Witness ==
  /\ HeaderWritten /\ Len(out) >= 2
  /\ \E q \in 1..(Len(out[2]) - 4) :
       SubSeq(out[2], q, q + 3) = <<Backslash, Backtick, Backslash, Backtick>>

\* header, then the fragment of each entry named *.svg among the first k
RECURSIVE ExpectedOut(_)
ExpectedOut(k) ==
  IF k = 0 THEN <<Header>>
  ELSE ExpectedOut(k - 1)
       \o (IF IsSvgName(dir[k].name)
           THEN <<Fragment(BaseName(dir[k].name),
                           Escape(Chars(process_svg_file(dir[k].content).content)))>>
           ELSE <<>>)

C8_Document == HeaderWritten => out = ExpectedOut(Processed)

C9_AsClaimed ==
  InFile =>
    \A i \in Range(examined) :
      root[i] # orig[i] =>
        ("viewBox" \in DOMAIN orig[i].attrib /\ IsViewBox00(orig[i].attrib["viewBox"]))

====
